---- MODULE Spec2Model ----
(***************************************************************************)
(* State-machine model of TestBenchGUI/testbench.py (class ThrusterGUI):   *)
(* the waypoint store, the curve sampler (compute_pwms), the packet framer *)
(* (serial_send, crc8) and the serial scheduler (serial_start,             *)
(* serial_send_idle, send_pwms, change_frequency).                         *)
(*                                                                         *)
(* Every handler of the class is a pure operator over the record of the    *)
(* object's fields; an uncaught Python exception is the field exc of the   *)
(* returned record, and the statements after the raising one do not act.   *)
(* The event loop reports an exception raised by a slot and goes on.       *)
(***************************************************************************)
EXTENDS Integers, Sequences, FiniteSets, TLC

(* ---------------- program constants (testbench.py:18-20) --------------- *)
PWM_MIN == 1100
PWM_MAX == 1900
THRUSTER_COUNT == 8
DEFAULT_FREQUENCY == 20

Channels == 0 .. (THRUSTER_COUNT - 1)

(* ---------------- bounds of the model ---------------------------------- *)
\* waypoint times are multiples of 1/TimeScale second
TimeScale == 2
\* longest waypoint list a dialog may build in one channel
MaxPoints == 2
\* number of dialogs, file loads and setting changes in one behaviour
MaxUserOps == 2
\* longest byte sequence handed to crc8 on its own
\* dialogs accepted in a behaviour of the waypoint editor
MaxEdits == 3
MaxCrcLen == 3

(* ---------------- integer helpers -------------------------------------- *)
Min2(a, b) == IF a <= b THEN a ELSE b
Max2(a, b) == IF a >= b THEN a ELSE b
Abs(a) == IF a < 0 THEN -a ELSE a
Sign(a) == IF a < 0 THEN -1 ELSE IF a > 0 THEN 1 ELSE 0

\* Python's (and numpy's) floor division, for a positive divisor
FloorDiv(a, b) == a \div b

\* int(x): truncation toward zero of the rational n/d, d > 0
IntTrunc(n, d) == IF n >= 0 THEN n \div d ELSE -((-n) \div d)

\* round(x) of Python 3 for the rational n/d, d > 0: half to even
PyRound(n, d) ==
  LET q == n \div d
      r == n - q * d
  IN  IF 2 * r < d THEN q
      ELSE IF 2 * r > d THEN q + 1
      ELSE IF q % 2 = 0 THEN q ELSE q + 1

(* ---------------- bit operations on non-negative integers -------------- *)
RECURSIVE BitXor(_, _)
BitXor(a, b) ==
  IF a = 0 THEN b
  ELSE IF b = 0 THEN a
  ELSE ((a + b) % 2) + 2 * BitXor(a \div 2, b \div 2)

RECURSIVE BitAnd(_, _)
BitAnd(a, b) ==
  IF a = 0 \/ b = 0 THEN 0
  ELSE ((a % 2) * (b % 2)) + 2 * BitAnd(a \div 2, b \div 2)

ShiftLeft1(a) == 2 * a

(* ---------------- crc8 (testbench.py:346-360) --------------------------- *)
\* An assignment evaluates its right-hand side once; here the value is bound
\* as the element of a one-element set: CHOOSE r \in {F(x) : x \in {e}} : TRUE
\* is F(e) with e evaluated once.
crc8_polynomial == 7

\* the bit step without the polynomial: a shift in both branches
crc8_bit_no_xor(crc) ==
  LET shifted == IF BitAnd(crc, 128) # 0
                 THEN ShiftLeft1(crc)
                 ELSE ShiftLeft1(crc)
  IN  BitAnd(shifted, 255)

\* the body of the inner loop: one of the 8 bit steps
crc8_bit(crc) ==
  LET shifted == IF BitAnd(crc, 128) # 0
                 THEN BitXor(ShiftLeft1(crc), crc8_polynomial)
                 ELSE ShiftLeft1(crc)
  IN  BitAnd(shifted, 255)

RECURSIVE crc8_bits(_, _)
crc8_bits(crc, n) ==
  IF n = 0 THEN crc
  ELSE CHOOSE r \in {crc8_bits(nxt, n - 1) : nxt \in {crc8_bit(crc)}} : TRUE

\* the 8 bit steps of one byte, tabulated by the register's value
crc8_byte == [crc \in 0 .. 255 |-> crc8_bits(crc, 8)]

\* for byte in data: crc ^= byte, then the 8 bit steps
RECURSIVE crc8_loop(_, _, _)
crc8_loop(crc, data, i) ==
  IF i > Len(data) THEN crc
  ELSE CHOOSE r \in {crc8_loop(nxt, data, i + 1) :
                       nxt \in {crc8_byte[BitXor(crc, data[i])]}} : TRUE

crc8(data) == crc8_loop(0, data, 1)

(* ---------------- values of the object's fields ------------------------ *)
\* an attribute that no statement has assigned yet (com_step, max_time)
NoAttr == -1

Methods == {"linear", "constant", "polynomial"}

\* a waypoint: time t in units of 1/TimeScale s, pwm, and whether the pair
\* is a JSON list (json_load_sequence) or a tuple (the dialogs)
Point(t, p, j) == [t |-> t, pwm |-> p, json |-> j]

\* floating-point values: the rational n/d for d > 0; nan, +inf and -inf
Rat(n, d) == <<n, d>>
NaN == <<0, 0>>
IsNaN(v) == v[2] = 0 /\ v[1] = 0
IsFinite(v) == v[2] > 0
FloatInf(sgn) == <<sgn, 0>>

\* a / 0.0 and inf * b in IEEE arithmetic, by sign
FloatMulInf(sgn, b) == IF sgn = 0 \/ b = 0 THEN NaN ELSE FloatInf(sgn * b)

\* np.clip(y, lo, hi) on one sample: nan stays nan
np_clip(v, lo, hi) ==
  IF v[2] = 0
  THEN IF v[1] = 0 THEN NaN ELSE IF v[1] > 0 THEN Rat(hi, 1) ELSE Rat(lo, 1)
  ELSE IF v[1] < lo * v[2] THEN Rat(lo, 1)
       ELSE IF v[1] > hi * v[2] THEN Rat(hi, 1)
       ELSE v

(* ---------------- list.sort and numpy's argsort ------------------------ *)
\* tuple order of Python on (time, pwm)
TupleLess(a, b) == a.t < b.t \/ (a.t = b.t /\ a.pwm < b.pwm)

RECURSIVE InsertSorted(_, _, _)
InsertSorted(sorted, e, byTimeOnly) ==
  IF sorted = <<>> THEN <<e>>
  ELSE LET last == sorted[Len(sorted)]
           eLess == IF byTimeOnly THEN e.t < last.t ELSE TupleLess(e, last)
       IN  IF eLess
           THEN Append(InsertSorted(SubSeq(sorted, 1, Len(sorted) - 1), e, byTimeOnly), last)
           ELSE Append(sorted, e)

RECURSIVE StableSort(_, _)
StableSort(l, byTimeOnly) ==
  IF l = <<>> THEN <<>>
  ELSE InsertSorted(StableSort(SubSeq(l, 1, Len(l) - 1), byTimeOnly), l[Len(l)], byTimeOnly)

\* comparing a list with a tuple raises TypeError
MixedKinds(l) == \E i, j \in 1 .. Len(l) : l[i].json # l[j].json

(* ---------------- interpolators (scipy.interpolate) -------------------- *)
\* The sample time is the rational tn/td (td > 0) in units of 1/TimeScale s.
\* xs is the waypoint list sorted by time (interp1d sorts its x, stable).

\* interp1d(kind="linear", fill_value="extrapolate")
interp_linear(xs, tn, td) ==
  LET n    == Len(xs)
      idx  == Cardinality({i \in 1 .. n : xs[i].t * td < tn})
      hi0  == IF n = 1 THEN 0 ELSE Max2(1, Min2(idx, n - 1))
      hi   == hi0 + 1
      lo   == IF hi0 = 0 THEN n ELSE hi0
      dx   == xs[hi].t - xs[lo].t
      dy   == xs[hi].pwm - xs[lo].pwm
      dt   == tn - xs[lo].t * td
  IN  IF dx = 0
      THEN FloatMulInf(Sign(dy), Sign(dt))
      ELSE Rat(xs[lo].pwm * (td * dx) + dy * dt, td * dx)

\* interp1d(kind="previous", fill_value="extrapolate"): nan below the first
\* waypoint, the last value above the last one
interp_previous(xs, tn, td) ==
  LET n    == Len(xs)
      idx  == Cardinality({i \in 1 .. n : xs[i].t * td <= tn})
      k    == Max2(1, Min2(idx, n))
  IN  IF tn < xs[1].t * td THEN NaN
      ELSE IF tn > xs[n].t * td THEN Rat(xs[n].pwm, 1)
      ELSE Rat(xs[k].pwm, 1)

\* BarycentricInterpolator: the interpolating polynomial through all points
RECURSIVE Gcd(_, _)
Gcd(a, b) == IF b = 0 THEN a ELSE Gcd(b, a % b)
Lcm(a, b) == (a \div Gcd(a, b)) * b

RECURSIVE ProdOver(_, _, _)
\* product of f[j] over j in 1..n, j # skip
ProdOver(f, n, skip) ==
  IF n = 0 THEN 1
  ELSE (IF n = skip THEN 1 ELSE f[n]) * ProdOver(f, n - 1, skip)

RECURSIVE LcmOver(_, _)
LcmOver(f, n) == IF n = 0 THEN 1 ELSE Lcm(Abs(f[n]), LcmOver(f, n - 1))

RECURSIVE SumOver(_, _)
SumOver(f, n) == IF n = 0 THEN 0 ELSE f[n] + SumOver(f, n - 1)

RECURSIVE IntPow(_, _)
IntPow(b, e) == IF e = 0 THEN 1 ELSE b * IntPow(b, e - 1)

DistinctTimes(xs) == \A i, j \in 1 .. Len(xs) : i # j => xs[i].t # xs[j].t
AllSameTime(xs) == \A i \in 1 .. Len(xs) : xs[i].t = xs[1].t

\* the constructor raises ValueError("Interpolation points xi must be
\* distinct.") when two, but not all, of the times are equal
barycentric_raises(xs) == ~DistinctTimes(xs) /\ ~AllSameTime(xs)

barycentric_eval(xs, tn, td) ==
  LET n     == Len(xs)
      nodes == {i \in 1 .. n : xs[i].t * td = tn}
  IN  IF nodes # {}
      THEN \* x equals some xi: the value of the last such point
           Rat(xs[CHOOSE i \in nodes : \A k \in nodes : k <= i].pwm, 1)
      ELSE IF n > 1 /\ AllSameTime(xs)
      THEN NaN  \* the weights are nan
      ELSE LET w   == [i \in 1 .. n |->
                        ProdOver([j \in 1 .. n |-> xs[i].t - xs[j].t], n, i)]
               num == [i \in 1 .. n |->
                        ProdOver([j \in 1 .. n |-> tn - xs[j].t * td], n, i)]
               L   == LcmOver(w, n)
               den == IntPow(td, n - 1) * L
               top == SumOver([i \in 1 .. n |->
                        xs[i].pwm * num[i] * Sign(w[i]) * (L \div Abs(w[i]))], n)
           IN  Rat(top, den)

\* f(t) for the selected interpolation method
curve_eval(method, points, tn, td) ==
  LET xs == StableSort(points, TRUE)
  IN  IF method = "linear" THEN interp_linear(xs, tn, td)
      ELSE IF method = "constant" THEN interp_previous(xs, tn, td)
      ELSE barycentric_eval(points, tn, td)

(* ---------------- the object and the trace of a handler ----------------- *)
VARIABLES
  points,                 \* self.points: Channels -> list of waypoints
  selected_interpolation, \* self.selected_interpolation
  output_frequency,       \* self.output_frequency
  serial_port,            \* self.serial_port: "None" or a device name
  cached_pwms,            \* self.cached_pwms[i][1]: Channels -> list of samples
  timer_active,           \* self.serial_timer.isActive()
  timer_interval,         \* self.serial_timer.interval(), ms
  serial_conn,            \* self.serial_conn: "None", "closed" or "open"
  serial_status,          \* self.serial_status
  com_step,               \* self.com_step
  max_time,               \* self.max_time, in units of 1/TimeScale s
  exc,                    \* exception the last handler ended with, or "None"
  ev,                     \* what the last handler did, in order
  last_tx,                \* history: the handler of the last transport write
  n_ops                   \* history: dialogs, loads and setting changes so far

vars == <<points, selected_interpolation, output_frequency, serial_port,
          cached_pwms, timer_active, timer_interval, serial_conn,
          serial_status, com_step, max_time, exc, ev, last_tx, n_ops>>

\* the object's fields as one record, with an empty trace
Self ==
  [points |-> points, selected_interpolation |-> selected_interpolation,
   output_frequency |-> output_frequency, serial_port |-> serial_port,
   cached_pwms |-> cached_pwms, timer_active |-> timer_active,
   timer_interval |-> timer_interval, serial_conn |-> serial_conn,
   serial_status |-> serial_status, com_step |-> com_step,
   max_time |-> max_time, exc |-> "None", ev |-> <<>>]

Event(op, src, data) == [op |-> op, src |-> src, data |-> data]
Log(s, op, src, data) == [s EXCEPT !.ev = Append(@, Event(op, src, data))]
Raise(s, e) == [s EXCEPT !.exc = e]
Raised(s) == s.exc # "None"

(* ---------------- setup_serial (testbench.py:325-338) ------------------- *)
\* open_ok: whether serial.Serial(port, baud) opens the device; it raises
\* SerialException otherwise.  With port None no device is opened and no
\* exception is raised.
setup_serial(s, open_ok) ==
  LET s1 == IF s.serial_status = 1
            THEN [Log(s, "close", "setup_serial", <<>>)
                    EXCEPT !.serial_conn = "closed", !.serial_status = 0]
            ELSE s
  IN  IF s1.serial_port = "None"
      THEN [s1 EXCEPT !.serial_conn = "closed"]
      ELSE IF open_ok
      THEN [Log(s1, "open", "setup_serial", <<>>)
              EXCEPT !.serial_conn = "open", !.serial_status = 1]
      ELSE [s1 EXCEPT !.serial_conn = "None", !.serial_status = 0]

(* ---------------- change_frequency (testbench.py:340-344) --------------- *)
\* the timer is started with the new interval whether it was active or not
change_frequency_always_start(s, freq) ==
  LET s1 == [s EXCEPT !.output_frequency = freq]
  IN  [Log(s1, "timer_start", "change_frequency", <<>>)
         EXCEPT !.timer_active = TRUE,
                !.timer_interval = FloorDiv(1000, s1.output_frequency)]

change_frequency(s, freq) ==
  LET s1 == [s EXCEPT !.output_frequency = freq]
  IN  IF s1.timer_active
      THEN [Log(s1, "timer_start", "change_frequency", <<>>)
              EXCEPT !.timer_interval = FloorDiv(1000, s1.output_frequency)]
      ELSE s1

(* ---------------- serial_send (testbench.py:362-388) -------------------- *)
Header == <<170, 0, 0>>
Trailer == <<238>>

\* the values are packed as they come
clamp_pwm_none(pwm) == pwm

clamp_pwm(pwm) == Max2(PWM_MIN, Min2(PWM_MAX, pwm))

\* struct.pack('>8H', ...): the high byte first
pack_be16(values) ==
  [k \in 1 .. 2 * Len(values) |->
     IF k % 2 = 1 THEN (values[(k + 1) \div 2] \div 256) % 256
     ELSE values[k \div 2] % 256]

\* struct.pack('<8H', ...): each value as two bytes, low byte first
pack_le16(values) ==
  [k \in 1 .. 2 * Len(values) |->
     IF k % 2 = 1 THEN values[(k + 1) \div 2] % 256
     ELSE (values[k \div 2] \div 256) % 256]

\* the four parts of the frame around the 16 bytes of packet
frame_around(packet) ==
  Header \o packet \o <<crc8(Header \o packet)>> \o Trailer

fullpacket(pwm_values) ==
  LET clamped == [i \in 1 .. Len(pwm_values) |-> clamp_pwm(pwm_values[i])]
  IN  CHOOSE r \in {frame_around(packet) : packet \in {pack_le16(clamped)}} : TRUE

\* the length of pwm_values is not looked at: what is there is framed
serial_send_any_length(s, pwm_values, src, write_ok) ==
  IF s.serial_status = 1
  THEN IF write_ok
       THEN Log(s, "write", src, fullpacket(pwm_values))
       ELSE Raise(s, "SerialException")
  ELSE Raise(s, "ConnectionError")

\* src names the caller; write_ok: whether serial_conn.write succeeds (it
\* raises SerialException otherwise)
serial_send(s, pwm_values, src, write_ok) ==
  IF Len(pwm_values) # 8 THEN Raise(s, "ValueError")
  ELSE IF s.serial_status = 1
  THEN IF write_ok
       THEN Log(s, "write", src, fullpacket(pwm_values))
       ELSE Raise(s, "SerialException")
  ELSE Raise(s, "ConnectionError")

(* ---------------- serial_send_idle (testbench.py:390-396) --------------- *)
IdlePwms == [i \in 1 .. THRUSTER_COUNT |-> 1500]

\* the idle frame is sent and the link closed while the timer keeps running
serial_send_idle_no_stop(s, open_ok, write_ok) ==
  LET s1 == IF s.serial_status = 0 THEN setup_serial(s, open_ok) ELSE s
      s3 == serial_send(s1, IdlePwms, "serial_send_idle", write_ok)
  IN  IF Raised(s3) THEN s3
      ELSE [Log(s3, "close", "serial_send_idle", <<>>)
              EXCEPT !.serial_conn = "closed", !.serial_status = 0]

\* variant: the timer is stopped after the idle frame has been sent
serial_send_idle_stop_last(s, open_ok, write_ok) ==
  LET s1 == IF s.serial_status = 0 THEN setup_serial(s, open_ok) ELSE s
      s3 == serial_send(s1, IdlePwms, "serial_send_idle", write_ok)
  IN  IF Raised(s3) THEN s3
      ELSE [Log(Log(s3, "timer_stop", "serial_send_idle", <<>>),
                "close", "serial_send_idle", <<>>)
              EXCEPT !.timer_active = FALSE,
                     !.serial_conn = "closed", !.serial_status = 0]

serial_send_idle(s, open_ok, write_ok) ==
  LET s1 == IF s.serial_status = 0 THEN setup_serial(s, open_ok) ELSE s
      s2 == [Log(s1, "timer_stop", "serial_send_idle", <<>>)
               EXCEPT !.timer_active = FALSE]
      s3 == serial_send(s2, IdlePwms, "serial_send_idle", write_ok)
  IN  IF Raised(s3) THEN s3
      ELSE [Log(s3, "close", "serial_send_idle", <<>>)
              EXCEPT !.serial_conn = "closed", !.serial_status = 0]

(* ---------------- compute_max_time (testbench.py:422-428) --------------- *)
RECURSIVE max_time_loop(_, _, _)
max_time_loop(pts, i, acc) ==
  IF i = THRUSTER_COUNT THEN acc
  ELSE LET a == IF pts[i] = <<>> THEN acc
                ELSE LET m == CHOOSE k \in 1 .. Len(pts[i]) :
                                \A j \in 1 .. Len(pts[i]) : pts[i][j].t <= pts[i][k].t
                     IN  Max2(acc, pts[i][m].t)
       IN  max_time_loop(pts, i + 1, a)

compute_max_time(s) == [s EXCEPT !.max_time = max_time_loop(s.points, 0, 0)]

(* ---------------- sampling (testbench.py:434-446, 303-319) -------------- *)
\* int(self.max_time * self.output_frequency) + 1
step_count(mt, freq) == IntTrunc(mt * freq, TimeScale) + 1

\* np.linspace(0, round(max_time), n)[j], j = 0..n-1, as <<tn, td>> in units
linspace_at(mt, n, j) ==
  IF n = 1 THEN <<0, 1>>
  ELSE <<j * PyRound(mt, TimeScale) * TimeScale, n - 1>>

\* the interpolator cannot be built: zip(*[]) has nothing to unpack, and
\* BarycentricInterpolator rejects its points
curve_raises(method, pts) ==
  \/ pts = <<>>
  \/ method = "polynomial" /\ barycentric_raises(pts)

\* np.clip(f(t_interp), 1100, 1900)
sample_curve(method, pts, mt, freq) ==
  LET n == step_count(mt, freq)
  IN  [j \in 1 .. n |->
         LET t == linspace_at(mt, n, j - 1)
         IN  np_clip(curve_eval(method, pts, t[1], t[2]), 1100, 1900)]

(* ---------------- compute_pwms (testbench.py:430-446) ------------------- *)
RECURSIVE compute_pwms_loop(_, _)
compute_pwms_loop(s, i) ==
  IF i = THRUSTER_COUNT THEN s
  ELSE IF curve_raises(s.selected_interpolation, s.points[i])
  THEN Raise(s, "ValueError")
  ELSE compute_pwms_loop(
         [s EXCEPT !.cached_pwms[i] =
            sample_curve(s.selected_interpolation, s.points[i],
                         s.max_time, s.output_frequency)],
         i + 1)

compute_pwms(s) == compute_pwms_loop(compute_max_time(s), 0)

(* ---------------- serial_start (testbench.py:406-420) ------------------- *)
StartSequence == <<255, 0, 1, 0, 0, 82, 238>>

\* the seven one-byte writes; writes_ok of them succeed before one raises
RECURSIVE write_start_sequence(_, _, _)
write_start_sequence(s, k, writes_ok) ==
  IF k > Len(StartSequence) THEN s
  ELSE IF k > writes_ok THEN Raise(s, "SerialException")
  ELSE write_start_sequence(
         Log(s, "write", "serial_start", <<StartSequence[k]>>), k + 1, writes_ok)

\* the status of the link is not looked at after setup_serial
serial_start_no_check(s, open_ok, writes_ok) ==
  LET s1 == setup_serial(s, open_ok)
      s2 == compute_pwms(s1)
  IN  IF Raised(s2) THEN s2
      ELSE LET s3 == IF s2.serial_status = 1
                     THEN write_start_sequence(s2, 1, writes_ok)
                     ELSE s2
           IN  IF Raised(s3) THEN s3
               ELSE [Log(s3, "timer_start", "serial_start", <<>>)
                       EXCEPT !.com_step = 0,
                              !.timer_active = TRUE,
                              !.timer_interval =
                                 FloorDiv(1000, s3.output_frequency)]

\* com_step keeps the value the last run left; 0 on the first run
serial_start_no_reset(s, open_ok, writes_ok) ==
  LET s1 == setup_serial(s, open_ok)
  IN  IF s1.serial_status = 0 THEN Raise(s1, "ConnectionError")
      ELSE LET s2 == compute_pwms(s1)
           IN  IF Raised(s2) THEN s2
               ELSE LET s3 == IF s2.serial_status = 1
                              THEN write_start_sequence(s2, 1, writes_ok)
                              ELSE s2
                    IN  IF Raised(s3) THEN s3
                        ELSE [Log(s3, "timer_start", "serial_start", <<>>)
                                EXCEPT !.com_step = IF @ = NoAttr THEN 0 ELSE @,
                                       !.timer_active = TRUE,
                                       !.timer_interval =
                                          FloorDiv(1000, s3.output_frequency)]

\* variant: the timer is started before the port is opened and checked
serial_start_timer_first(s, open_ok, writes_ok) ==
  LET s0 == [Log(s, "timer_start", "serial_start", <<>>)
               EXCEPT !.com_step = 0,
                      !.timer_active = TRUE,
                      !.timer_interval = FloorDiv(1000, s.output_frequency)]
      s1 == setup_serial(s0, open_ok)
  IN  IF s1.serial_status = 0 THEN Raise(s1, "ConnectionError")
      ELSE LET s2 == compute_pwms(s1)
           IN  IF Raised(s2) THEN s2
               ELSE IF s2.serial_status = 1
                    THEN write_start_sequence(s2, 1, writes_ok)
                    ELSE s2

serial_start(s, open_ok, writes_ok) ==
  LET s1 == setup_serial(s, open_ok)
  IN  IF s1.serial_status = 0 THEN Raise(s1, "ConnectionError")
      ELSE LET s2 == compute_pwms(s1)
           IN  IF Raised(s2) THEN s2
               ELSE LET s3 == IF s2.serial_status = 1
                              THEN write_start_sequence(s2, 1, writes_ok)
                              ELSE s2
                    IN  IF Raised(s3) THEN s3
                        ELSE [Log(s3, "timer_start", "serial_start", <<>>)
                                EXCEPT !.com_step = 0,
                                       !.timer_active = TRUE,
                                       !.timer_interval =
                                          FloorDiv(1000, s3.output_frequency)]

(* ---------------- serial_start_stop (testbench.py:398-404) -------------- *)
serial_start_stop(s, open_ok, writes_ok) ==
  IF s.serial_status = 1
  THEN serial_send_idle(s, open_ok, writes_ok >= 1)
  ELSE serial_start(s, open_ok, writes_ok)

(* ---------------- get_pwms (testbench.py:455-462) ----------------------- *)
\* int(self.cached_pwms[i][1][step]) raises IndexError past the end of the
\* array and ValueError on nan; the bare except ends the loop
get_pwms_raises(s, i, step) ==
  \/ step + 1 > Len(s.cached_pwms[i])
  \/ IsNaN(s.cached_pwms[i][step + 1])

RECURSIVE get_pwms_loop(_, _, _, _)
get_pwms_loop(s, step, i, result) ==
  IF i = THRUSTER_COUNT THEN result
  ELSE IF get_pwms_raises(s, i, step) THEN result
  ELSE LET v == s.cached_pwms[i][step + 1]
       IN  get_pwms_loop(s, step, i + 1, Append(result, IntTrunc(v[1], v[2])))

get_pwms(s, step) == get_pwms_loop(s, step, 0, <<>>)

(* ---------------- send_pwms (testbench.py:449-453) ---------------------- *)
send_pwms(s, open_ok, write_ok) ==
  IF s.com_step <= step_count(s.max_time, s.output_frequency)
  THEN LET s1 == CHOOSE r \in {serial_send(s, pwms, "send_pwms", write_ok) :
                                 pwms \in {get_pwms(s, s.com_step)}} : TRUE
       IN  IF Raised(s1) THEN s1 ELSE [s1 EXCEPT !.com_step = @ + 1]
  ELSE serial_send_idle(s, open_ok, write_ok)

(* ---------------- the dialogs (testbench.py:222-283) -------------------- *)
\* list.sort(): TypeError when a JSON list meets a tuple, the list is then
\* left as it was
\* variant: the list is left in the order of insertion
list_sort_none(s, ch) == s

list_sort(s, ch) ==
  IF MixedKinds(s.points[ch]) THEN Raise(s, "TypeError")
  ELSE [s EXCEPT !.points[ch] = StableSort(@, FALSE)]

add_point_dialog(s, ch, time_value, pwm_value) ==
  list_sort([s EXCEPT !.points[ch] = Append(@, Point(time_value, pwm_value, FALSE))], ch)

\* point_list.index(selected_point): the first entry shown with that text
selected_index(pts, shown) ==
  CHOOSE k \in 1 .. Len(pts) :
    /\ pts[k].t = pts[shown].t /\ pts[k].pwm = pts[shown].pwm
    /\ \A j \in 1 .. (k - 1) : ~(pts[j].t = pts[shown].t /\ pts[j].pwm = pts[shown].pwm)

edit_point_dialog(s, ch, shown, new_time, new_pwm) ==
  LET k == selected_index(s.points[ch], shown)
  IN  list_sort([s EXCEPT !.points[ch][k] = Point(new_time, new_pwm, FALSE)], ch)

remove_point_dialog(s, ch, shown) ==
  LET k   == selected_index(s.points[ch], shown)
      pts == s.points[ch]
  IN  [s EXCEPT !.points[ch] = SubSeq(pts, 1, k - 1) \o SubSeq(pts, k + 1, Len(pts))]

(* ---------------- change_interpolation (testbench.py:295-323) ----------- *)
\* of interpolate_thruster_curve only compute_max_time acts on the object
interpolate_thruster_curve(s, i) ==
  IF curve_raises(s.selected_interpolation, s.points[i])
  THEN Raise(s, "ValueError")
  ELSE compute_max_time(s)

RECURSIVE change_interpolation_loop(_, _)
change_interpolation_loop(s, i) ==
  IF i = THRUSTER_COUNT THEN s
  ELSE LET s1 == interpolate_thruster_curve(s, i)
       IN  IF Raised(s1) THEN s1 ELSE change_interpolation_loop(s1, i + 1)

change_interpolation(s, method) ==
  change_interpolation_loop([s EXCEPT !.selected_interpolation = method], 0)

(* ---------------- json_load_sequence (testbench.py:485-509) ------------- *)
\* a file: interpolation_method and frequency ("absent" and 0 when the key
\* is missing) and thruster_data, the lists of [time, pwm] by channel
RECURSIVE json_load_loop(_, _, _)
json_load_loop(s, data, i) ==
  IF i = THRUSTER_COUNT THEN s
  ELSE LET s1 == interpolate_thruster_curve(
                   [s EXCEPT !.points[i] = data.thruster_data[i]], i)
       IN  IF Raised(s1)
           THEN [s1 EXCEPT !.exc = "None"]  \* except Exception: print
           ELSE json_load_loop(s1, data, i + 1)

json_load_sequence(s, data) ==
  json_load_loop(
    [s EXCEPT !.selected_interpolation =
                 IF data.interpolation_method = "absent" THEN "linear"
                 ELSE data.interpolation_method,
              !.output_frequency =
                 IF data.frequency = 0 THEN 20 ELSE data.frequency],
    data, 0)

\* json.dump writes a tuple as a list, and the keys 0..7 as "0".."7",
\* which are the keys json_load_sequence asks for
json_dump_points(l) == [k \in 1 .. Len(l) |-> Point(l[k].t, l[k].pwm, TRUE)]

\* the data json_save_sequence writes to the file
json_save_sequence(s) ==
  [interpolation_method |-> s.selected_interpolation,
   frequency |-> s.output_frequency,
   thruster_data |-> [i \in Channels |-> json_dump_points(s.points[i])]]

(* ---------------- inputs ------------------------------------------------ *)
\* entries of the frequency menu (testbench.py:213) the model selects
FreqValues == {1, 5}
Ports == {"ttyUSB0"}
\* what the dialogs are given
DialogChannels == {0}
DialogTimes == {3}
DialogPwms == {PWM_MAX}

JsonList(l) == [k \in 1 .. Len(l) |-> Point(l[k][1], l[k][2], TRUE)]

\* every channel has two waypoints; 1 s long
FileRamp ==
  [interpolation_method |-> "linear", frequency |-> 2,
   thruster_data |-> [i \in Channels |->
      JsonList(<< <<0, 1100 + 100 * i>>, <<2, 1900 - 100 * i>> >>)]]
\* pwm values outside [1100, 1900], waypoints that start after t = 0
FileOutOfRange ==
  [interpolation_method |-> "constant", frequency |-> 5,
   thruster_data |-> [i \in Channels |->
      IF i = 0 THEN JsonList(<< <<0, 1000>>, <<1, 2000>> >>)
      ELSE IF i = 7 THEN JsonList(<< <<1, 2500>> >>)
      ELSE JsonList(<< <<0, 900 + 200 * i>> >>)]]
\* one waypoint in every channel, all at t = 0
FileSingle ==
  [interpolation_method |-> "polynomial", frequency |-> 0,
   thruster_data |-> [i \in Channels |-> JsonList(<< <<0, 1400 + 50 * i>> >>)]]

SequenceFiles == {FileRamp, FileOutOfRange, FileSingle}

(* ---------------- the state machine ------------------------------------- *)
Writes(trace) == SelectSeq(trace, LAMBDA e : e.op = "write")

\* the fields of s become the object's; the trace and the exception of the
\* handler are kept for inspection
Commit(s) ==
  /\ points' = s.points
  /\ selected_interpolation' = s.selected_interpolation
  /\ output_frequency' = s.output_frequency
  /\ serial_port' = s.serial_port
  /\ cached_pwms' = s.cached_pwms
  /\ timer_active' = s.timer_active
  /\ timer_interval' = s.timer_interval
  /\ serial_conn' = s.serial_conn
  /\ serial_status' = s.serial_status
  /\ com_step' = s.com_step
  /\ max_time' = s.max_time
  /\ exc' = s.exc
  /\ ev' = s.ev
  /\ last_tx' = IF Writes(s.ev) = <<>> THEN last_tx
                ELSE Writes(s.ev)[Len(Writes(s.ev))].src

Slot(name, args) == Log(Self, "call", name, args)

\* __init__ (testbench.py:38-61)
Init ==
  /\ points = [i \in Channels |-> <<>>]
  /\ selected_interpolation = "linear"
  /\ output_frequency = DEFAULT_FREQUENCY
  /\ serial_port = "None"
  /\ cached_pwms = [i \in Channels |-> <<>>]
  /\ timer_active = FALSE
  /\ timer_interval = 0
  /\ serial_conn = "None"
  /\ serial_status = 0
  /\ com_step = NoAttr
  /\ max_time = NoAttr
  /\ exc = "None"
  /\ ev = <<>>
  /\ last_tx = "none"
  /\ n_ops = 0

SetSerialPort ==
  \E p \in Ports :
    /\ (\E r \in {[Slot("set_serial_port", <<>>) EXCEPT !.serial_port = p]} : Commit(r))
    /\ UNCHANGED n_ops

AddPoint ==
  \E ch \in DialogChannels, t \in DialogTimes, p \in DialogPwms :
    /\ n_ops < MaxUserOps
    /\ Len(points[ch]) < MaxPoints
    /\ (\E r \in {add_point_dialog(Slot("add_point_dialog", <<ch, t, p>>), ch, t, p)} : Commit(r))
    /\ n_ops' = n_ops + 1

EditPoint ==
  \E ch \in DialogChannels, t \in DialogTimes, p \in DialogPwms :
    \E k \in 1 .. Len(points[ch]) :
      /\ n_ops < MaxUserOps
      /\ (\E r \in {edit_point_dialog(Slot("edit_point_dialog", <<ch, k, t, p>>), ch, k, t, p)} : Commit(r))
      /\ n_ops' = n_ops + 1

RemovePoint ==
  \E ch \in DialogChannels :
    \E k \in 1 .. Len(points[ch]) :
      /\ n_ops < MaxUserOps
      /\ (\E r \in {remove_point_dialog(Slot("remove_point_dialog", <<ch, k>>), ch, k)} : Commit(r))
      /\ n_ops' = n_ops + 1

ChangeInterpolation ==
  \E m \in Methods :
    /\ n_ops < MaxUserOps
    /\ (\E r \in {change_interpolation(Slot("change_interpolation", <<>>), m)} : Commit(r))
    /\ n_ops' = n_ops + 1

ChangeFrequency ==
  \E f \in FreqValues :
    /\ n_ops < MaxUserOps
    /\ (\E r \in {change_frequency(Slot("change_frequency", <<f>>), f)} : Commit(r))
    /\ n_ops' = n_ops + 1

LoadSequence ==
  \E data \in SequenceFiles :
    /\ n_ops < MaxUserOps
    /\ (\E r \in {json_load_sequence(Slot("json_load_sequence", <<>>), data)} : Commit(r))
    /\ n_ops' = n_ops + 1

\* the Start / Stop button
StartStop ==
  \E open_ok \in BOOLEAN, writes_ok \in {0, 3, Len(StartSequence)} :
    /\ (\E r \in {serial_start_stop(Slot("serial_start_stop", <<>>), open_ok, writes_ok)} : Commit(r))
    /\ UNCHANGED n_ops

\* the Idle button
Idle ==
  \E open_ok \in BOOLEAN, write_ok \in BOOLEAN :
    /\ (\E r \in {serial_send_idle(Slot("serial_send_idle", <<>>), open_ok, write_ok)} : Commit(r))
    /\ UNCHANGED n_ops

\* serial_timer.timeout: fires only while the timer is active
Tick ==
  /\ timer_active
  /\ \E open_ok \in BOOLEAN, write_ok \in BOOLEAN :
       (\E r \in {send_pwms(Slot("send_pwms", <<>>), open_ok, write_ok)} : Commit(r))
  /\ UNCHANGED n_ops

Next ==
  \/ SetSerialPort
  \/ AddPoint
  \/ EditPoint
  \/ RemovePoint
  \/ ChangeInterpolation
  \/ ChangeFrequency
  \/ LoadSequence
  \/ StartStop
  \/ Idle
  \/ Tick

Spec == Init /\ [][Next]_vars

(* ---------------- a streaming run left alone ---------------------------- *)
\* the user acts only while the timer is stopped, the device accepts every
\* write, and the timer keeps firing while it is active
TickDelivered ==
  /\ timer_active
  /\ (\E r \in {send_pwms(Slot("send_pwms", <<>>), TRUE, TRUE)} : Commit(r))
  /\ UNCHANGED n_ops

StartStopDelivered ==
  /\ ~timer_active
  /\ (\E r \in {serial_start_stop(Slot("serial_start_stop", <<>>), TRUE, Len(StartSequence))} :
        Commit(r))
  /\ UNCHANGED n_ops

UserSetup ==
  /\ ~timer_active
  /\ (SetSerialPort \/ AddPoint \/ EditPoint \/ RemovePoint \/ ChangeInterpolation
        \/ ChangeFrequency \/ LoadSequence)

NextRun ==
  \/ UserSetup
  \/ StartStopDelivered
  \/ TickDelivered

RunSpec == Init /\ [][NextRun]_vars /\ WF_vars(TickDelivered)

(* ---------------- the framer on its own -------------------------------- *)
\* values handed to serial_send besides the idle value
FramePwms == {0, 1099, 1100, 1755, 1900, 1901, 65535}

\* vectors of 8 values with at most two of them not 1500, and vectors of
\* other lengths
FrameInputs ==
  {[IdlePwms EXCEPT ![i] = a, ![j] = b] :
     i \in 1 .. THRUSTER_COUNT, j \in 1 .. THRUSTER_COUNT, a \in FramePwms, b \in FramePwms}
  \cup {<<>>, <<1500>>, SubSeq(IdlePwms, 1, 7), Append(IdlePwms, 1500)}

\* the link is open (the port is selected and setup_serial has opened it)
\* and serial_send is about to be called on a vector v
FramerInit ==
  /\ points = [i \in Channels |-> <<>>]
  /\ selected_interpolation = "linear"
  /\ output_frequency = DEFAULT_FREQUENCY
  /\ serial_port = "ttyUSB0"
  /\ cached_pwms = [i \in Channels |-> <<>>]
  /\ timer_active = FALSE
  /\ timer_interval = 0
  /\ serial_conn = "open"
  /\ serial_status = 1
  /\ com_step = NoAttr
  /\ max_time = NoAttr
  /\ exc = "None"
  /\ \E v \in FrameInputs : ev = <<Event("call", "serial_send", v)>>
  /\ last_tx = "none"
  /\ n_ops = 0

SerialSend ==
  /\ Len(ev) = 1
  /\ \E write_ok \in BOOLEAN :
       \E r \in {serial_send([Self EXCEPT !.ev = ev], ev[1].data, "serial_send", write_ok)} :
         Commit(r)
  /\ UNCHANGED n_ops

FramerSpec == FramerInit /\ [][SerialSend]_vars

(* ---------------- crc8 on its own --------------------------------------- *)
CrcBytes == {0, 1, 7, 128, 170, 255}

RECURSIVE SeqsUpTo(_, _)
SeqsUpTo(S, n) ==
  IF n = 0 THEN {<<>>}
  ELSE LET shorter == SeqsUpTo(S, n - 1)
       IN  shorter \cup {Append(q, b) : q \in shorter, b \in S}

\* the bytes of "123456789"
CheckString == <<49, 50, 51, 52, 53, 54, 55, 56, 57>>

CrcInputs == SeqsUpTo(CrcBytes, MaxCrcLen) \cup {CheckString, Header}

\* crc8 is about to be called on data
CrcInit ==
  /\ points = [i \in Channels |-> <<>>]
  /\ selected_interpolation = "linear"
  /\ output_frequency = DEFAULT_FREQUENCY
  /\ serial_port = "None"
  /\ cached_pwms = [i \in Channels |-> <<>>]
  /\ timer_active = FALSE
  /\ timer_interval = 0
  /\ serial_conn = "None"
  /\ serial_status = 0
  /\ com_step = NoAttr
  /\ max_time = NoAttr
  /\ exc = "None"
  /\ \E data \in CrcInputs : ev = <<Event("call", "crc8", data)>>
  /\ last_tx = "none"
  /\ n_ops = 0

Crc8Call ==
  /\ Len(ev) = 1
  /\ ev' = Append(ev, Event("return", "crc8", <<crc8(ev[1].data)>>))
  /\ UNCHANGED <<points, selected_interpolation, output_frequency, serial_port,
                 cached_pwms, timer_active, timer_interval, serial_conn,
                 serial_status, com_step, max_time, exc, last_tx, n_ops>>

CrcSpec == CrcInit /\ [][Crc8Call]_vars

(* ---------------- editing while a sequence is loaded --------------------- *)
\* channel 0 ends later than the others; 1 s long
FileHold ==
  [interpolation_method |-> "constant", frequency |-> 2,
   thruster_data |-> [i \in Channels |->
      IF i = 0 THEN JsonList(<< <<0, 1200>>, <<2, 1800>> >>)
      ELSE JsonList(<< <<0, 1500 + 10 * i>> >>)]]

EditFiles == {FileRamp, FileHold}

\* the object after __init__, the choice of a port and the load of data
Loaded(data) ==
  json_load_sequence(
    [points |-> [i \in Channels |-> <<>>],
     selected_interpolation |-> "linear",
     output_frequency |-> DEFAULT_FREQUENCY,
     serial_port |-> "ttyUSB0",
     cached_pwms |-> [i \in Channels |-> <<>>],
     timer_active |-> FALSE, timer_interval |-> 0,
     serial_conn |-> "None", serial_status |-> 0,
     com_step |-> NoAttr, max_time |-> NoAttr,
     exc |-> "None",
     ev |-> <<Event("call", "json_load_sequence", <<>>)>>],
    data)

EditInit ==
  \E data \in EditFiles :
    \E r \in {Loaded(data)} :
      /\ points = r.points
      /\ selected_interpolation = r.selected_interpolation
      /\ output_frequency = r.output_frequency
      /\ serial_port = r.serial_port
      /\ cached_pwms = r.cached_pwms
      /\ timer_active = r.timer_active
      /\ timer_interval = r.timer_interval
      /\ serial_conn = r.serial_conn
      /\ serial_status = r.serial_status
      /\ com_step = r.com_step
      /\ max_time = r.max_time
      /\ exc = r.exc
      /\ ev = r.ev
      /\ last_tx = "none"
      /\ n_ops = 0

EditNext ==
  \/ AddPoint
  \/ EditPoint
  \/ RemovePoint
  \/ ChangeInterpolation
  \/ StartStop
  \/ Tick

EditSpec == EditInit /\ [][EditNext]_vars

(* ---------------- the waypoint editor ------------------------------------ *)
\* values entered in the dialogs (channel, time in 1/TimeScale s, PWM)
EditorChannels == {0, 5}
EditorTimes == {0, 1, 3}
EditorPwms == {1100, 1900}

EditorAdd ==
  \E ch \in EditorChannels, t \in EditorTimes, p \in EditorPwms :
    /\ n_ops < MaxEdits
    /\ Len(points[ch]) < MaxPoints
    /\ (\E r \in {add_point_dialog(Slot("add_point_dialog", <<ch, t, p>>), ch, t, p)} : Commit(r))
    /\ n_ops' = n_ops + 1

EditorEdit ==
  \E ch \in EditorChannels, t \in EditorTimes, p \in EditorPwms :
    \E k \in 1 .. Len(points[ch]) :
      /\ n_ops < MaxEdits
      /\ (\E r \in {edit_point_dialog(Slot("edit_point_dialog", <<ch, k, t, p>>), ch, k, t, p)} : Commit(r))
      /\ n_ops' = n_ops + 1

EditorRemove ==
  \E ch \in EditorChannels :
    \E k \in 1 .. Len(points[ch]) :
      /\ n_ops < MaxEdits
      /\ (\E r \in {remove_point_dialog(Slot("remove_point_dialog", <<ch, k>>), ch, k)} : Commit(r))
      /\ n_ops' = n_ops + 1

EditorNext ==
  \/ EditorAdd
  \/ EditorEdit
  \/ EditorRemove

EditorSpec == Init /\ [][EditorNext]_vars

(* ---------------- saving and loading ------------------------------------ *)
\* waypoint lists a channel holds when the sequence is saved
SnapshotLists ==
  {<<>>,
   <<Point(0, 1500, FALSE)>>,
   <<Point(0, 1100, FALSE), Point(2, 1900, FALSE)>>}

\* the channels whose list varies; the others hold one waypoint
SnapshotChannels == {0, 1, 7}

\* the fields json_save_sequence reads, in the states it is called in
SnapshotStores ==
  {[points |-> [i \in Channels |->
                  IF i \in SnapshotChannels THEN g[i] ELSE <<Point(0, 1500, FALSE)>>],
    selected_interpolation |-> m,
    output_frequency |-> f] :
     g \in [SnapshotChannels -> SnapshotLists], m \in Methods, f \in FreqValues}

\* load a file that json_save_sequence wrote
LoadSnapshot ==
  \E st \in SnapshotStores :
    /\ n_ops < MaxUserOps
    /\ (\E data \in {json_save_sequence(st)} :
          \E r \in {json_load_sequence(Slot("json_load_sequence", <<data>>), data)} :
            Commit(r))
    /\ n_ops' = n_ops + 1

SnapshotNext ==
  \/ AddPoint
  \/ RemovePoint
  \/ LoadSnapshot

SnapshotSpec == Init /\ [][SnapshotNext]_vars

(* ---------------- reading the trace of a handler ------------------------ *)
\* the handler that made the last step
Handler == IF ev = <<>> THEN "none" ELSE ev[1].src
HandlerNext == ev'[1].src

Has(trace, op) == \E k \in 1 .. Len(trace) : trace[k].op = op

\* the frames among the writes of a trace: the writes of 21 bytes
Frames(trace) == SelectSeq(trace, LAMBDA e : e.op = "write" /\ Len(e.data) = 21)

\* the value a frame carries for channel i (0 .. 7)
FrameDecode(f, i) == f[4 + 2 * i] + 256 * f[5 + 2 * i]

\* the value the frame carries for pwm: pwm limited to 1100 .. 1900
FrameValue(pwm) == IF pwm < 1100 THEN 1100 ELSE IF pwm > 1900 THEN 1900 ELSE pwm

IdleFrame == fullpacket(IdlePwms)

\* the link states of the scheduler
OpenStreaming == serial_status = 1 /\ timer_active
Closed == serial_status = 0 /\ serial_conn # "open"

(* ---------------- C1 ----------------------------------------------------- *)
\* C1: once a stop has sent its idle frame and as long as no start has
\* written since, the timer is inactive, so no tick is delivered, and
\* whatever writes to the transport next is not a tick
C1_NoFrameAfterStop ==
  /\ [](last_tx = "serial_send_idle" => ~timer_active)
  /\ [][(last_tx = "serial_send_idle" /\ Writes(ev') # <<>>)
          => HandlerNext # "send_pwms"]_vars

\* a run was stopped by the button after two ticks, and the idle frame was
\* the last thing written
C1_Witness ==
  /\ last_tx = "serial_send_idle"
  /\ Handler = "serial_start_stop"
  /\ Len(Frames(ev)) = 1
  /\ com_step = 2
  /\ ~timer_active

(* ---------------- C2 ----------------------------------------------------- *)
\* what stop does, in order
StopTrace(src) ==
  <<Event("call", src, <<>>),
    Event("timer_stop", "serial_send_idle", <<>>),
    Event("write", "serial_send_idle", IdleFrame),
    Event("close", "serial_send_idle", <<>>)>>

\* C2: a stop (the Start/Stop button or the Idle button) in Open-Streaming
\* cancels the tick, then writes one idle frame of eight 1500, then closes
\* the transport; afterwards the link is Closed and the timer inactive
C2_StopSequence ==
  [][(OpenStreaming /\ HandlerNext \in {"serial_start_stop", "serial_send_idle"})
       => /\ ev' = StopTrace(HandlerNext)
          /\ \A i \in Channels : FrameDecode(ev'[3].data, i) = 1500
          /\ serial_status' = 0 /\ serial_conn' = "closed"
          /\ ~timer_active']_vars

(* ---------------- C3 ----------------------------------------------------- *)
\* C3: a run that was started and is left alone, with ticks delivered as
\* long as the timer is active and every write accepted, ends: the idle
\* frame is sent, the timer stopped and the link closed
C3_RunEndsByItself ==
  OpenStreaming ~> (~timer_active /\ serial_status = 0 /\ last_tx = "serial_send_idle")

(* ---------------- C4 ----------------------------------------------------- *)
AllEmpty == \A i \in Channels : points[i] = <<>>

\* C4: Start, pressed while the link is closed and no channel has a waypoint,
\* fails, writes nothing, starts no tick and leaves the link closed
C4_StartWithoutData ==
  [][(AllEmpty /\ serial_status = 0 /\ HandlerNext = "serial_start_stop")
       => /\ exc' # "None"
          /\ Writes(ev') = <<>>
          /\ ~timer_active'
          /\ serial_status' = 0 /\ serial_conn' # "open"]_vars

(* ---------------- C5 ----------------------------------------------------- *)
MixedEmpty ==
  /\ \E i \in Channels : points[i] # <<>>
  /\ \E i \in Channels : points[i] = <<>>

\* the cached sample of channel i at a step, as send_pwms takes it
CachedValue(i, step) ==
  LET v == cached_pwms[i][step + 1] IN IntTrunc(v[1], v[2])

\* C5: with waypoints in some channels and none in others, Start (the port
\* opens, the transport accepts the writes) succeeds and the run begins; a
\* data frame carries 1500 for a channel without a cached curve and the
\* cached value for the others
C5_EmptyChannelsSkipped ==
  [][/\ (MixedEmpty /\ serial_status = 0 /\ HandlerNext = "serial_start_stop"
           /\ Has(ev', "open") /\ exc' # "SerialException")
          => (exc' = "None" /\ timer_active' /\ serial_status' = 1 /\ com_step' = 0)
     /\ (HandlerNext = "send_pwms" /\ Frames(ev') # <<>>
           /\ Frames(ev')[1].src = "send_pwms")
          => \A i \in Channels :
               FrameDecode(Frames(ev')[1].data, i) =
                 IF cached_pwms[i] = <<>> THEN 1500
                 ELSE FrameValue(CachedValue(i, com_step))]_vars

(* ---------------- C6 ----------------------------------------------------- *)
\* what a start that succeeds does once the port is open
StartWrites ==
  [k \in 1 .. 7 |-> Event("write", "serial_start", <<StartSequence[k]>>)]

\* C6: a Start that succeeds writes FF 00 01 00 00 52 EE, once, byte by byte,
\* and nothing else, before the timer is started; it leaves the cursor at 0;
\* and the first frame a tick writes after it is the one of step 0 of the
\* cache
C6_StartSequenceFirst ==
  [][/\ (serial_status = 0 /\ HandlerNext = "serial_start_stop" /\ exc' = "None")
          => /\ Writes(ev') = StartWrites
             /\ ev'[Len(ev')] = Event("timer_start", "serial_start", <<>>)
             /\ com_step' = 0
             /\ timer_active'
     /\ (last_tx = "serial_start" /\ HandlerNext = "send_pwms" /\ Writes(ev') # <<>>)
          => /\ com_step = 0 /\ com_step' = 1
             /\ Len(Writes(ev')) = 1
             /\ Len(Writes(ev')[1].data) = 21
             /\ \A i \in Channels :
                  FrameDecode(Writes(ev')[1].data, i) = FrameValue(CachedValue(i, 0))]_vars

\* the first tick after a start has sent the frame of step 0, and step 1 of
\* the cache holds another value for channel 0
C6_Witness ==
  /\ Handler = "send_pwms"
  /\ Len(Frames(ev)) = 1
  /\ com_step = 1
  /\ timer_active
  /\ last_tx = "send_pwms"
  /\ Len(cached_pwms[0]) >= 2
  /\ IsFinite(cached_pwms[0][2])
  /\ \A i \in Channels : FrameDecode(Frames(ev)[1].data, i) = FrameValue(CachedValue(i, 0))
  /\ FrameDecode(Frames(ev)[1].data, 0) # FrameValue(CachedValue(0, 1))

(* ---------------- C7 ----------------------------------------------------- *)
\* C7: when Start is pressed with the link closed and the port does not open,
\* the link stays closed and Start fails at once: nothing is written, the
\* cache, the cursor and max_time are as before, and no tick is started
C7_OpenFailureFailsFast ==
  [][(serial_status = 0 /\ HandlerNext = "serial_start_stop" /\ ~Has(ev', "open"))
       => /\ exc' = "ConnectionError"
          /\ serial_status' = 0 /\ serial_conn' # "open"
          /\ Writes(ev') = <<>>
          /\ cached_pwms' = cached_pwms /\ com_step' = com_step /\ max_time' = max_time
          /\ ~Has(ev', "timer_start") /\ ~timer_active']_vars

\* Start has failed on a port that would not open, with waypoints loaded
C7_Witness ==
  /\ Handler = "serial_start_stop"
  /\ exc = "ConnectionError"
  /\ serial_port # "None"
  /\ \A i \in Channels : points[i] # <<>>
  /\ serial_status = 0 /\ ~timer_active

(* ---------------- C8 ----------------------------------------------------- *)
\* C8: every value of every frame written is in 1100 .. 1900
C8_FramePwmInRange ==
  \A k \in 1 .. Len(Frames(ev)) : \A i \in Channels :
    /\ FrameDecode(Frames(ev)[k].data, i) >= PWM_MIN
    /\ FrameDecode(Frames(ev)[k].data, i) <= PWM_MAX

\* a tick has written a frame from waypoints below 1100 and above 1900
C8_Witness ==
  /\ Handler = "send_pwms"
  /\ Len(Frames(ev)) = 1
  /\ \E i \in Channels :
       /\ \A k \in 1 .. Len(points[i]) : points[i][k].pwm > PWM_MAX
       /\ points[i] # <<>>
       /\ FrameDecode(Frames(ev)[1].data, i) = PWM_MAX
  /\ \E i \in Channels :
       /\ \E k \in 1 .. Len(points[i]) : points[i][k].pwm < PWM_MIN
       /\ FrameDecode(Frames(ev)[1].data, i) = PWM_MIN

(* ---------------- CRC-8 by polynomial division --------------------------- *)
\* the bits of an octet, most significant first
ByteBits(b) == [k \in 1 .. 8 |-> (b \div (2 ^ (8 - k))) % 2]

RECURSIVE MessageBits(_)
MessageBits(data) ==
  IF data = <<>> THEN <<>> ELSE ByteBits(data[1]) \o MessageBits(Tail(data))

\* x^8 + x^2 + x + 1: the polynomial 0x07 with its leading term
Generator == <<1, 0, 0, 0, 0, 0, 1, 1, 1>>

\* long division over GF(2): the generator is subtracted wherever the
\* dividend has a leading 1; the last 8 bits are the remainder
RECURSIVE PolyRemainder(_, _)
PolyRemainder(bits, i) ==
  IF i > Len(bits) - 8 THEN SubSeq(bits, Len(bits) - 7, Len(bits))
  ELSE LET nxt == IF bits[i] = 1
                  THEN SubSeq(bits, 1, i - 1)
                       \o [k \in 1 .. 9 |-> (bits[i + k - 1] + Generator[k]) % 2]
                       \o SubSeq(bits, i + 9, Len(bits))
                  ELSE bits
       IN  IF Len(nxt) >= 8 THEN PolyRemainder(nxt, i + 1) ELSE nxt

RECURSIVE BitsValue(_)
BitsValue(bits) ==
  IF bits = <<>> THEN 0
  ELSE 2 * BitsValue(SubSeq(bits, 1, Len(bits) - 1)) + bits[Len(bits)]

\* the remainder of data(x) * x^8 divided by the generator
Crc8Reference(data) ==
  BitsValue(PolyRemainder(MessageBits(data) \o <<0, 0, 0, 0, 0, 0, 0, 0>>, 1))

(* ---------------- C10 ---------------------------------------------------- *)
\* C10: whenever crc8 has returned, its value is the CRC-8 of the bytes it
\* was given (polynomial 0x07, register 0 at the start, most significant bit
\* first: the remainder of the polynomial division), it is an octet, it is 0
\* for the empty sequence and 0xF4 for the bytes of "123456789"
C10_Crc8IsCrc8 ==
  (Len(ev) = 2 /\ ev[2].op = "return" /\ ev[2].src = "crc8") =>
    LET data == ev[1].data
        crc  == ev[2].data[1]
    IN  /\ crc = Crc8Reference(data)
        /\ crc \in 0 .. 255
        /\ (data = <<>> => crc = 0)
        /\ (data = CheckString => crc = 244)

\* crc8 has returned on a sequence of three bytes whose CRC is not 0
C10_Witness ==
  /\ Len(ev) = 2 /\ ev[2].op = "return" /\ ev[2].src = "crc8"
  /\ ev[1].data = <<170, 0, 0>>
  /\ ev[2].data[1] = Crc8Reference(<<170, 0, 0>>)
  /\ ev[2].data[1] # 0

(* ---------------- C9 ----------------------------------------------------- *)
\* the frame f is the 21 bytes of the vector v
IsFrameOf(f, v) ==
  /\ Len(f) = 21
  /\ \A k \in 1 .. 21 : f[k] \in 0 .. 255
  /\ f[1] = 170 /\ f[2] = 0 /\ f[3] = 0
  /\ \A i \in 1 .. 8 : f[2 + 2 * i] + 256 * f[3 + 2 * i] = FrameValue(v[i])
  /\ f[20] = crc8(SubSeq(f, 1, 19))
  /\ f[21] = 238

\* C9: serial_send, called on a vector of exactly 8 integers with the link
\* open, writes one frame, unless the write itself fails, and the frame is
\* 21 bytes: AA 00 00, the 8 values limited to 1100..1900 as little-endian
\* 16-bit integers in channel order, the crc8 of bytes 0-18, and EE
C9_FrameLayout ==
  (Len(ev) >= 1 /\ ev[1].op = "call" /\ ev[1].src = "serial_send"
     /\ Len(ev[1].data) = 8) =>
    /\ exc \in {"None", "SerialException"}
    /\ Len(ev) > 1 =>
         /\ Len(ev) = 2
         /\ ev[2].op = "write"
         /\ IsFrameOf(ev[2].data, ev[1].data)
         /\ exc = "None"

\* a frame was written for a vector with a value below 1100, a value above
\* 1900 and values in between
C9_Witness ==
  /\ Len(ev) = 2 /\ ev[1].src = "serial_send" /\ ev[2].op = "write"
  /\ ev[1].data = [IdlePwms EXCEPT ![2] = 1099, ![7] = 65535]
  /\ ev[2].data[6] + 256 * ev[2].data[7] = 1100
  /\ ev[2].data[16] + 256 * ev[2].data[17] = 1900
  /\ ev[2].data[4] + 256 * ev[2].data[5] = 1500

(* ---------------- C11 ---------------------------------------------------- *)
\* C11: serial_send, called on a vector whose length is not 8, raises
\* ValueError and writes nothing: no frame is made of a padded or truncated
\* vector, and the link is left as it was
C11_WrongLengthRejected ==
  [][(ev[1].op = "call" /\ ev[1].src = "serial_send" /\ Len(ev[1].data) # 8)
       => /\ exc' = "ValueError"
          /\ Writes(ev') = <<>>
          /\ ev' = ev
          /\ serial_status' = serial_status /\ serial_conn' = serial_conn]_vars

\* serial_send has refused a vector of 7 or of 9 values
C11_Witness ==
  /\ Handler = "serial_send"
  /\ exc = "ValueError"
  /\ Len(ev) = 1
  /\ Len(ev[1].data) \in {7, 9}

(* ---------------- C12 ---------------------------------------------------- *)
\* C12: change_frequency(f) stores f; the cache, the cursor and the link are
\* left alone; in Open-Streaming the timer stays active and is restarted
\* with the interval 1000 // f; with the timer inactive no timer is started
C12_ChangeFrequency ==
  [][HandlerNext = "change_frequency"
       => /\ output_frequency' = ev'[1].data[1]
          /\ cached_pwms' = cached_pwms /\ com_step' = com_step
          /\ serial_status' = serial_status /\ serial_conn' = serial_conn
          /\ exc' = "None" /\ Writes(ev') = <<>>
          /\ OpenStreaming
               => /\ timer_active' /\ serial_status' = 1
                  /\ timer_interval' = 1000 \div ev'[1].data[1]
                  /\ Has(ev', "timer_start")
          /\ ~OpenStreaming
               => /\ ~timer_active' /\ timer_interval' = timer_interval
                  /\ ~Has(ev', "timer_start")]_vars

\* the frequency was changed to 5 Hz in a run that a file of another
\* frequency started and that has sent a frame
C12_Witness ==
  /\ Handler = "change_frequency"
  /\ timer_active /\ serial_status = 1
  /\ output_frequency = 5 /\ timer_interval = 200
  /\ com_step >= 1
  /\ Len(cached_pwms[0]) = 3

(* ---------------- C13 ---------------------------------------------------- *)
\* the object after the step
SelfNext ==
  [points |-> points', selected_interpolation |-> selected_interpolation',
   output_frequency |-> output_frequency', serial_port |-> serial_port',
   cached_pwms |-> cached_pwms', timer_active |-> timer_active',
   timer_interval |-> timer_interval', serial_conn |-> serial_conn',
   serial_status |-> serial_status', com_step |-> com_step',
   max_time |-> max_time', exc |-> "None", ev |-> <<>>]

\* what the next k ticks write, every write accepted, until the timer stops
RECURSIVE RestOfRun(_, _)
RestOfRun(s, k) ==
  IF k = 0 \/ ~s.timer_active THEN <<>>
  ELSE LET t == send_pwms([s EXCEPT !.ev = <<>>, !.exc = "None"], TRUE, TRUE)
           w == Writes(t.ev)
       IN  [j \in 1 .. Len(w) |-> w[j].data] \o RestOfRun(t, k - 1)

\* more ticks than the cache has steps
RunTicks == Len(cached_pwms[0]) + 2

EditHandlers ==
  {"add_point_dialog", "edit_point_dialog", "remove_point_dialog", "change_interpolation"}

\* C13: a waypoint dialog or a change of the interpolation mode in
\* Open-Streaming leaves the cache and the cursor as they are and the run
\* going, and what the rest of the run transmits is what it would have
\* transmitted without it: the same frames, as many, ending the same way
C13_CacheIsSnapshot ==
  [][(OpenStreaming /\ HandlerNext \in EditHandlers)
       => /\ cached_pwms' = cached_pwms
          /\ com_step' = com_step
          /\ timer_active'
          /\ RestOfRun(SelfNext, RunTicks) = RestOfRun(Self, RunTicks)]_vars

(* ---------------- C16 ---------------------------------------------------- *)
\* a waypoint list by value, a tuple and a list of the same numbers alike
Waypoints(l) == [k \in 1 .. Len(l) |-> <<l[k].t, l[k].pwm>>]

\* C16: after a file that json_save_sequence wrote in some state S has been
\* loaded, whatever the state it is loaded into, the eight waypoint lists, the
\* interpolation mode and the frequency are those of S
C16_SnapshotRoundTrip ==
  (Handler = "json_load_sequence" /\ Len(ev[1].data) = 1)
    => LET data == ev[1].data[1]
       IN  /\ \A i \in Channels : Waypoints(points[i]) = Waypoints(data.thruster_data[i])
           /\ selected_interpolation = data.interpolation_method
           /\ output_frequency = data.frequency

(* ---------------- C14 ---------------------------------------------------- *)
WriteFailures == {"SerialException", "ConnectionError"}

\* C14: a tick in Open-Streaming whose write to the link fails (the link is
\* not open, or the write raises) ends the run: afterwards the timer is
\* stopped and the link is closed
C14_WriteFailureStops ==
  [][(OpenStreaming /\ HandlerNext = "send_pwms" /\ exc' \in WriteFailures)
       => (~timer_active' /\ serial_status' = 0)]_vars

(* ---------------- C15 ---------------------------------------------------- *)
StopHandlers == {"serial_start_stop", "serial_send_idle"}

\* C15: in every reachable Open-Streaming state, also one where ticks raise,
\* the Start/Stop button (or the idle button) leaves the timer inactive,
\* whether or not its own write succeeds
C15_StopLeavesStreaming ==
  [][(OpenStreaming /\ HandlerNext \in StopHandlers) => ~timer_active']_vars

\* a stop pressed with the cursor at the end of the cache, where every tick
\* raises, and whose own write failed: the timer is stopped all the same
C15_Witness ==
  /\ Handler = "serial_start_stop"
  /\ Has(ev, "timer_stop")
  /\ exc = "SerialException"
  /\ ~timer_active
  /\ Len(cached_pwms[0]) >= 1
  /\ com_step = Len(cached_pwms[0])

(* ---------------- C17 ---------------------------------------------------- *)
UniqueTimes(l) == \A j, k \in 1 .. Len(l) : j # k => l[j].t # l[k].t

\* C17: whatever waypoints were added and edited, no channel holds two
\* waypoints with the same time
C17_TimesUnique == \A ch \in Channels : UniqueTimes(points[ch])

(* ---------------- C18 ---------------------------------------------------- *)
Ascending(l) == \A k \in 1 .. (Len(l) - 1) : l[k].t <= l[k + 1].t

\* C18: after any add, edit and remove dialogs on channels that started
\* empty, every channel's list is in ascending order of time
C18_SortedByTime == \A ch \in Channels : Ascending(points[ch])

\* an add dialog placed its waypoint in front of a later one
C18_Witness ==
  /\ Handler = "add_point_dialog"
  /\ \E ch \in EditorChannels :
       /\ ev[1].data[1] = ch
       /\ Len(points[ch]) = 2
       /\ points[ch][1].t = ev[1].data[2]
       /\ points[ch][1].pwm = ev[1].data[3]
       /\ points[ch][1].t < points[ch][2].t

(* ---------------- C19 ---------------------------------------------------- *)
\* the tick wrote one frame, the one of a step of the cache
SentStep(trace, step) ==
  /\ Len(Writes(trace)) = 1
  /\ Frames(trace) = Writes(trace)
  /\ \A i \in Channels :
       /\ step < Len(cached_pwms[i])
       /\ IsFinite(cached_pwms[i][step + 1])
       /\ FrameDecode(Frames(trace)[1].data, i) = FrameValue(CachedValue(i, step))

\* the tick ended the run: the idle frame, the timer stopped
SentIdle(trace) ==
  /\ Len(Writes(trace)) = 1
  /\ Writes(trace)[1].data = IdleFrame
  /\ Has(trace, "timer_stop")

\* C19: a start that begins a run leaves the cursor at 0; a tick of the run
\* whose write does not fail either ends the run or sends the frame made of
\* the cached values of all eight channels at the cursor and moves the
\* cursor on by one
C19_StepsInOrder ==
  [][/\ (~timer_active /\ timer_active') => com_step' = 0
     /\ (OpenStreaming /\ HandlerNext = "send_pwms" /\ exc' \notin WriteFailures)
          => \/ SentIdle(ev') /\ ~timer_active' /\ com_step' = com_step
             \/ SentStep(ev', com_step) /\ timer_active' /\ com_step' = com_step + 1]_vars

(* ---------------- C20 ---------------------------------------------------- *)
\* the tick takes the branch of send_pwms that builds a data frame
BuildsFrame == com_step <= step_count(max_time, output_frequency)

\* C20: whenever a tick in Open-Streaming builds a data frame, the cursor is
\* below the length of the cached curve of every channel, and the vector
\* get_pwms hands to serial_send has eight values
C20_CursorInBounds ==
  [][(OpenStreaming /\ HandlerNext = "send_pwms" /\ BuildsFrame)
       => /\ \A i \in Channels : com_step < Len(cached_pwms[i])
          /\ Len(get_pwms(Self, com_step)) = THRUSTER_COUNT]_vars

(* ---------------- C21 ---------------------------------------------------- *)
\* C21: in every reachable state in which the timer is active the link is
\* marked open (serial_status = 1): no start, stop, idle, change of
\* frequency, waypoint dialog, load or tick leaves the timer running on a
\* link marked closed
C21_TimerImpliesOpen == timer_active => serial_status = 1

\* a tick whose write failed: the timer still runs and the link is still
\* marked open
C21_Witness ==
  /\ Handler = "send_pwms"
  /\ exc = "SerialException"
  /\ timer_active
  /\ serial_status = 1
  /\ serial_conn = "open"

====
